---- MODULE Spec2Model ----
(***************************************************************************)
(* Model of lib/src/sql/statements/info.rs: the INFO FOR statement.        *)
(*   - InfoStatement          the four-variant statement value             *)
(*   - info / namespace / database / scope / table   the nom parser        *)
(*   - Display                the renderer                                 *)
(*   - compute                the permission gate followed by todo!()      *)
(* Text is a sequence of one-character strings.  A parser result is a      *)
(* record: kind "Ok" (rest = unconsumed input, val = output), or kind      *)
(* "Error" / "Failure" (nom's Err::Error / Err::Failure, rest = the input  *)
(* at which the error was raised).                                         *)
(***************************************************************************)
EXTENDS Integers, Sequences, FiniteSets, TLC

VARIABLES shape, input, res, stmt, text, back, opt, events, out

vars == <<shape, input, res, stmt, text, back, opt, events, out>>

(* ------------------------------ bounds --------------------------------- *)

\* a separator of the generated inputs has 0..MaxSep spaces
MaxSep == 1
\* identifier bodies and constructed names have 0..MaxIdLen characters
MaxIdLen == 1
\* a case mix 1..k lowers the keyword positions p with ((p-1) % MaxMask)+1 <= k
MaxMask == 2

(* ------------------------------ text ----------------------------------- *)

UpperCase == <<"A","B","C","D","E","F","G","H","I","J","K","L","M",
               "N","O","P","Q","R","S","T","U","V","W","X","Y","Z">>

LowerCase == <<"a","b","c","d","e","f","g","h","i","j","k","l","m",
               "n","o","p","q","r","s","t","u","v","w","x","y","z">>

Digits == {"0","1","2","3","4","5","6","7","8","9"}

Letters == {UpperCase[k] : k \in 1..26} \cup {LowerCase[k] : k \in 1..26}

\* char::to_lowercase on the ASCII range, as tag_no_case compares
Lower(c) ==
  IF \E k \in 1..26 : UpperCase[k] = c
  THEN LowerCase[CHOOSE k \in 1..26 : UpperCase[k] = c]
  ELSE c

Drop(i, n) == SubSeq(i, n + 1, Len(i))

Take(i, n) == SubSeq(i, 1, n)

(* --------------------------- InfoStatement ----------------------------- *)

Namespace == [variant |-> "Namespace", name |-> <<>>]

Database == [variant |-> "Database", name |-> <<>>]

Scope(s) == [variant |-> "Scope", name |-> s]

Table(t) == [variant |-> "Table", name |-> t]

\* absence of a statement (no value of the enum)
NoStmt == [variant |-> "None", name |-> <<>>]

(* ------------------------- parser results ------------------------------ *)

Ok(rest, val) == [ok |-> TRUE, kind |-> "Ok", rest |-> rest, val |-> val, tried |-> 0]

Err(kind, at) == [ok |-> FALSE, kind |-> kind, rest |-> at, val |-> NoStmt, tried |-> 0]

NoRes == [ok |-> FALSE, kind |-> "None", rest |-> <<>>, val |-> NoStmt, tried |-> 0]

(* ------------------------- nom combinators ----------------------------- *)

\* mutant: the keyword compared exactly, as nom's tag does
tag_exact(tag, i) ==
  IF Len(i) >= Len(tag) /\ \A k \in 1..Len(tag) : i[k] = tag[k]
  THEN [ok |-> TRUE, kind |-> "Ok", rest |-> Drop(i, Len(tag)),
        val |-> Take(i, Len(tag)), tried |-> 0]
  ELSE [ok |-> FALSE, kind |-> "Error", rest |-> i, val |-> NoStmt, tried |-> 0]

\* nom::bytes::complete::tag_no_case(tag)(i)
tag_no_case(tag, i) ==
  IF Len(i) >= Len(tag) /\ \A k \in 1..Len(tag) : Lower(i[k]) = Lower(tag[k])
  THEN Ok(Drop(i, Len(tag)), Take(i, Len(tag)))
  ELSE Err("Error", i)

\* nom::branch::alt((tag_no_case(a), tag_no_case(b)))(i)
alt_tags(a, b, i) ==
  LET r1 == tag_no_case(a, i) IN
  IF r1.kind # "Error" THEN r1 ELSE tag_no_case(b, i)

(* ------------------- collaborators of the sql crate -------------------- *)

IsSpace(c) == c \in {" ", "\t", "\n", "\r"}

\* length of the block comment at the head of i, 0 when there is none
RECURSIVE CommentEnd(_, _)
CommentEnd(i, k) ==
  IF k + 1 > Len(i) THEN 0
  ELSE IF i[k] = "*" /\ i[k + 1] = "/" THEN k + 1
  ELSE CommentEnd(i, k + 1)

CommentLen(i) ==
  IF Len(i) >= 2 /\ i[1] = "/" /\ i[2] = "*" THEN CommentEnd(i, 3) ELSE 0

\* number of leading characters of i that are whitespace or comments
RECURSIVE SkipLen(_)
SkipLen(i) ==
  IF i = <<>> THEN 0
  ELSE IF IsSpace(i[1]) THEN 1 + SkipLen(Drop(i, 1))
  ELSE IF CommentLen(i) > 0 THEN CommentLen(i) + SkipLen(Drop(i, CommentLen(i)))
  ELSE 0

\* crate::sql::comment::shouldbespace: one or more whitespace / comments
shouldbespace(i) ==
  IF SkipLen(i) > 0 THEN Ok(Drop(i, SkipLen(i)), <<>>) ELSE Err("Error", i)

\* the backtick character (it cannot be written in a string literal here)
Backtick == "BACKTICK"

IsIdentChar(c) == c \in Letters \/ c \in Digits \/ c = "_"

RECURSIVE RunLen(_, _)
RunLen(i, stop) ==
  IF i = <<>> \/ i[1] \in stop THEN 0 ELSE 1 + RunLen(Drop(i, 1), stop)

RECURSIVE IdentLen(_)
IdentLen(i) ==
  IF i = <<>> \/ ~IsIdentChar(i[1]) THEN 0 ELSE 1 + IdentLen(Drop(i, 1))

\* an identifier delimited by open .. close, holding one or more characters
ident_quoted(open, close, i) ==
  LET n == RunLen(Drop(i, 1), {close}) IN
  IF i # <<>> /\ i[1] = open /\ n > 0 /\ Len(i) >= n + 2
  THEN Ok(Drop(i, n + 2), SubSeq(i, 2, n + 1))
  ELSE Err("Error", i)

\* crate::sql::ident::ident_raw: a plain, backtick-quoted or bracket-quoted
\* identifier; the value returned is the unquoted text
ident_raw(i) ==
  IF IdentLen(i) > 0 THEN Ok(Drop(i, IdentLen(i)), Take(i, IdentLen(i)))
  ELSE IF ident_quoted(Backtick, Backtick, i).ok
       THEN ident_quoted(Backtick, Backtick, i)
  ELSE ident_quoted("⟨", "⟩", i)

(* ----------------------------- the parser ------------------------------ *)

KwInfo == <<"I","N","F","O">>
KwFor == <<"F","O","R">>
KwNamespace == <<"N","A","M","E","S","P","A","C","E">>
KwNs == <<"N","S">>
KwDatabase == <<"D","A","T","A","B","A","S","E">>
KwDb == <<"D","B">>
KwScope == <<"S","C","O","P","E">>
KwSc == <<"S","C">>
KwTable == <<"T","A","B","L","E">>
KwTb == <<"T","B">>

\* mutant: the whitespace after the keyword is swallowed as well
namespace_trim(i) ==
  LET r == alt_tags(KwNamespace, KwNs, i) IN
  IF ~r.ok THEN r ELSE Ok(Drop(r.rest, SkipLen(r.rest)), Namespace)

namespace(i) ==
  LET r == alt_tags(KwNamespace, KwNs, i) IN
  IF ~r.ok THEN r ELSE Ok(r.rest, Namespace)

database(i) ==
  LET r == alt_tags(KwDatabase, KwDb, i) IN
  IF ~r.ok THEN r ELSE Ok(r.rest, Database)

\* mutant: a missing identifier is taken as the empty name
scope_noident(i) ==
  LET r1 == alt_tags(KwScope, KwSc, i) IN
  IF ~r1.ok THEN r1 ELSE
  LET r2 == shouldbespace(r1.rest) IN
  IF ~r2.ok THEN r2 ELSE
  LET r3 == ident_raw(r2.rest) IN
  IF ~r3.ok THEN Ok(r2.rest, Scope(<<>>)) ELSE Ok(r3.rest, Scope(r3.val))

\* mutant: cut(shouldbespace) after the keyword, an Err::Failure when absent
scope_cut(i) ==
  LET r1 == alt_tags(KwScope, KwSc, i) IN
  IF ~r1.ok THEN r1 ELSE
  LET r2 == shouldbespace(r1.rest) IN
  IF ~r2.ok THEN Err("Failure", r2.rest) ELSE
  LET r3 == ident_raw(r2.rest) IN
  IF ~r3.ok THEN r3 ELSE Ok(r3.rest, Scope(r3.val))

scope(i) ==
  LET r1 == alt_tags(KwScope, KwSc, i) IN
  IF ~r1.ok THEN r1 ELSE
  LET r2 == shouldbespace(r1.rest) IN
  IF ~r2.ok THEN r2 ELSE
  LET r3 == ident_raw(r2.rest) IN
  IF ~r3.ok THEN r3 ELSE Ok(r3.rest, Scope(r3.val))

table(i) ==
  LET r1 == alt_tags(KwTable, KwTb, i) IN
  IF ~r1.ok THEN r1 ELSE
  LET r2 == shouldbespace(r1.rest) IN
  IF ~r2.ok THEN r2 ELSE
  LET r3 == ident_raw(r2.rest) IN
  IF ~r3.ok THEN r3 ELSE Ok(r3.rest, Table(r3.val))

\* nom::branch::alt((namespace, database, scope, table))(i): the next
\* alternative is tried only after an Err::Error; tried counts the attempts
alt_targets(i) ==
  LET a == namespace(i)
      b == database(i)
      c == scope(i)
      d == table(i)
  IN IF a.kind # "Error" THEN [a EXCEPT !.tried = 1]
     ELSE IF b.kind # "Error" THEN [b EXCEPT !.tried = 2]
     ELSE IF c.kind # "Error" THEN [c EXCEPT !.tried = 3]
     ELSE [d EXCEPT !.tried = 4]

\* mutant: the separator after FOR is optional
info_optional_space(i) ==
  LET r1 == tag_no_case(KwInfo, i) IN
  IF ~r1.ok THEN r1 ELSE
  LET r2 == shouldbespace(r1.rest) IN
  IF ~r2.ok THEN r2 ELSE
  LET r3 == tag_no_case(KwFor, r2.rest) IN
  IF ~r3.ok THEN r3 ELSE alt_targets(Drop(r3.rest, SkipLen(r3.rest)))

info(i) ==
  LET r1 == tag_no_case(KwInfo, i) IN
  IF ~r1.ok THEN r1 ELSE
  LET r2 == shouldbespace(r1.rest) IN
  IF ~r2.ok THEN r2 ELSE
  LET r3 == tag_no_case(KwFor, r2.rest) IN
  IF ~r3.ok THEN r3 ELSE
  LET r4 == shouldbespace(r3.rest) IN
  IF ~r4.ok THEN r4 ELSE alt_targets(r4.rest)

(* ----------------------------- Display --------------------------------- *)

\* mutant: the Database arm writes the alias
Display_alias(s) ==
  CASE s.variant = "Namespace" ->
         <<"I","N","F","O"," ","F","O","R"," ","N","A","M","E","S","P","A","C","E">>
    [] s.variant = "Database" ->
         <<"I","N","F","O"," ","F","O","R"," ","D","B">>
    [] s.variant = "Scope" ->
         <<"I","N","F","O"," ","F","O","R"," ","S","C","O","P","E"," ">> \o s.name
    [] s.variant = "Table" ->
         <<"I","N","F","O"," ","F","O","R"," ","T","A","B","L","E"," ">> \o s.name

Display(s) ==
  CASE s.variant = "Namespace" ->
         <<"I","N","F","O"," ","F","O","R"," ","N","A","M","E","S","P","A","C","E">>
    [] s.variant = "Database" ->
         <<"I","N","F","O"," ","F","O","R"," ","D","A","T","A","B","A","S","E">>
    [] s.variant = "Scope" ->
         <<"I","N","F","O"," ","F","O","R"," ","S","C","O","P","E"," ">> \o s.name
    [] s.variant = "Table" ->
         <<"I","N","F","O"," ","F","O","R"," ","T","A","B","L","E"," ">> \o s.name

(* ----------------------------- compute --------------------------------- *)

\* crate::dbs::Level, the tiers a permission context can hold
Tiers == {"No", "Kv", "Ns", "Db"}

TierRank == [No |-> 0, Db |-> 1, Ns |-> 2, Kv |-> 3]

\* Options::check(level): succeeds when the context's tier reaches level
check(o, level) == TierRank[o] >= TierRank[level]

\* mutant: the Namespace arm asks for the database level too
RequiredLevel_db(s) == "Db"

\* the match of compute: the level each arm passes to opt.check
RequiredLevel(s) ==
  CASE s.variant = "Namespace" -> "Ns"
    [] s.variant = "Database" -> "Db"
    [] s.variant = "Scope" -> "Db"
    [] s.variant = "Table" -> "Db"

CheckEvent(level, passed) == [op |-> "check", level |-> level, ok |-> passed]

TodoEvent == [op |-> "todo", level |-> "-", ok |-> FALSE]

\* mutant: the result of the check is dropped instead of propagated with ?
compute_unchecked(s, o) ==
  [events |-> <<CheckEvent(RequiredLevel(s), check(o, RequiredLevel(s))), TodoEvent>>,
   out |-> "panic"]

\* InfoStatement::compute: the calls it makes, in order, and how it ends
compute(s, o) ==
  LET level == RequiredLevel(s) IN
  IF ~check(o, level)
  THEN [events |-> <<CheckEvent(level, FALSE)>>, out |-> "Err(QueryPermissions)"]
  ELSE [events |-> <<CheckEvent(level, TRUE), TodoEvent>>, out |-> "panic"]

(* --------------------------- generated inputs -------------------------- *)

RECURSIVE Rep(_, _)
Rep(tok, n) == IF n = 0 THEN <<>> ELSE tok \o Rep(tok, n - 1)

SeqsUpTo(S, n) == UNION {[1..k -> S] : k \in 0..n}

\* word with the positions selected by mask in lower case
Cased(word, mask) ==
  [k \in 1..Len(word) |->
     IF ((k - 1) % MaxMask) + 1 \in mask THEN Lower(word[k]) ELSE word[k]]

Masks == {1..k : k \in 0..MaxMask}

Seps == {Rep(<<" ">>, n) : n \in 0..MaxSep} \cup {<<"/","*","c","*","/">>}

Keywords ==
  {KwNamespace, KwNs, KwDatabase, KwDb, KwScope, KwSc, KwTable, KwTb}

Targets == Keywords \cup {<<>>, <<"X">>}

Quote(q, body) ==
  CASE q = "plain" -> body
    [] q = "backtick" -> <<Backtick>> \o body \o <<Backtick>>
    [] q = "bracket" -> <<"⟨">> \o body \o <<"⟩">>

IdTexts ==
  [q : {"plain"}, body : SeqsUpTo({"t", "T"}, MaxIdLen)]
    \cup [q : {"backtick"}, body : SeqsUpTo({"t"}, MaxIdLen)]
    \cup [q : {"bracket"}, body : SeqsUpTo({" "}, MaxIdLen)]

Suffixes == {<<>>, <<";">>}

Shapes ==
  [mode : {"text"}, mask : Masks, sep1 : Seps, sep2 : Seps, sep3 : Seps,
   tgt : Targets, id : IdTexts, suffix : Suffixes]

\* what follows the target keyword
AfterTarget(sh) == sh.sep3 \o Quote(sh.id.q, sh.id.body) \o sh.suffix

TextOf(sh) ==
  Cased(KwInfo, sh.mask) \o sh.sep1 \o Cased(KwFor, sh.mask)
    \o sh.sep2 \o Cased(sh.tgt, sh.mask) \o AfterTarget(sh)

Names == SeqsUpTo({"t", "T", " "}, MaxIdLen)

Constructed ==
  {Namespace, Database} \cup {Scope(n) : n \in Names} \cup {Table(n) : n \in Names}

NoShape ==
  [mode |-> "value", mask |-> {}, sep1 |-> <<>>, sep2 |-> <<>>, sep3 |-> <<>>,
   tgt |-> <<>>, id |-> [q |-> "plain", body |-> <<>>], suffix |-> <<>>]

(* ---------------------------- state machine ---------------------------- *)
\* input, text: an optional text, <<>> (none) or <<t>>

Init ==
  /\ \/ \E sh \in Shapes : shape = sh /\ input = <<TextOf(sh)>> /\ stmt = NoStmt
     \/ \E s \in Constructed : shape = NoShape /\ input = <<>> /\ stmt = s
  /\ res = NoRes
  /\ text = <<>>
  /\ back = NoRes
  /\ opt = "None"
  /\ events = <<>>
  /\ out = "none"

\* the caller runs info on its input and keeps the statement it returns
ParseInput ==
  /\ input # <<>>
  /\ res = NoRes
  /\ res' = info(input[1])
  /\ stmt' = IF res'.ok THEN res'.val ELSE NoStmt
  /\ UNCHANGED <<shape, input, text, back, opt, events, out>>

\* format!("{}", stmt)
Render ==
  /\ stmt # NoStmt
  /\ text = <<>>
  /\ text' = <<Display(stmt)>>
  /\ UNCHANGED <<shape, input, res, stmt, back, opt, events, out>>

\* info on the rendered text
Reparse ==
  /\ text # <<>>
  /\ back = NoRes
  /\ back' = info(text[1])
  /\ UNCHANGED <<shape, input, res, stmt, text, opt, events, out>>

\* stmt.compute(ctx, opt, txn, doc) under the permission context o
Compute(o) ==
  /\ stmt # NoStmt
  /\ out = "none"
  /\ opt' = o
  /\ events' = compute(stmt, o).events
  /\ out' = compute(stmt, o).out
  /\ UNCHANGED <<shape, input, res, stmt, text, back>>

Next ==
  \/ ParseInput
  \/ Render
  \/ Reparse
  \/ \E o \in Tiers : Compute(o)

Spec == Init /\ [][Next]_vars

(* ------------------------ vocabulary of the claims --------------------- *)

\* the run started from generated text and info has been applied to it
Parsed == shape.mode = "text" /\ res # NoRes

NsKeywords == {KwNamespace, KwNs}
DbKeywords == {KwDatabase, KwDb}
ScKeywords == {KwScope, KwSc}
TbKeywords == {KwTable, KwTb}

NeedsIdent(tgt) == tgt \in ScKeywords \cup TbKeywords

\* the statement a target keyword stands for, given the identifier after it
StatementFor(tgt, name) ==
  CASE tgt \in NsKeywords -> Namespace
    [] tgt \in DbKeywords -> Database
    [] tgt \in ScKeywords -> Scope(name)
    [] tgt \in TbKeywords -> Table(name)
    [] OTHER -> NoStmt

FullKeyword(tgt) ==
  CASE tgt \in NsKeywords -> KwNamespace
    [] tgt \in DbKeywords -> KwDatabase
    [] tgt \in ScKeywords -> KwScope
    [] tgt \in TbKeywords -> KwTable
    [] OTHER -> tgt

\* the same input spelled with upper-case full keywords
UpperFull(sh) == [sh EXCEPT !.mask = {}, !.tgt = FullKeyword(sh.tgt)]

SepsPresent == shape.sep1 # <<>> /\ shape.sep2 # <<>>

Failed == ~res.ok /\ res.val = NoStmt /\ stmt = NoStmt

ChecksMade == {k \in DOMAIN events : events[k].op = "check"}

TodoReached == \E k \in DOMAIN events : events[k].op = "todo"

(* -------------------------------- C1 ----------------------------------- *)
\* C1: for every constructed statement s, info applied to the text Display
\* produces for s succeeds and returns a statement equal to s.
C1_RoundTrip == back # NoRes => back.ok /\ back.val = stmt

(* -------------------------------- C2 ----------------------------------- *)
\* C2: every execution of compute makes exactly one permission check, and
\* the level passed is Ns for Namespace and Db for Database, Scope, Table.
C2_OneCheckWithTier ==
  out # "none" =>
    /\ Cardinality(ChecksMade) = 1
    /\ events[1].op = "check"
    /\ events[1].level = IF stmt.variant = "Namespace" THEN "Ns" ELSE "Db"

C2_Witness ==
  /\ out # "none"
  /\ stmt.variant = "Scope"
  /\ events[1] = CheckEvent("Db", TRUE)

(* -------------------------------- C3 ----------------------------------- *)
\* C3: when the permission check fails compute ends with the authorization
\* error and never reaches the introspection step; the step is reached only
\* after a successful check; a Namespace statement under a database-level
\* context fails this way.
C3_FailClosed ==
  out # "none" =>
    /\ events[1].ok = check(opt, events[1].level)
    /\ ~events[1].ok => out = "Err(QueryPermissions)" /\ ~TodoReached
    /\ \A k \in DOMAIN events :
         events[k].op = "todo" =>
           \E j \in 1..(k - 1) : events[j].op = "check" /\ events[j].ok
    /\ stmt = Namespace /\ opt = "Db" => out = "Err(QueryPermissions)" /\ ~TodoReached

C3_Witness ==
  /\ stmt = Namespace
  /\ opt = "Db"
  /\ out = "Err(QueryPermissions)"
  /\ events = <<CheckEvent("Ns", FALSE)>>

(* -------------------------------- C4 ----------------------------------- *)
\* C4: when the permission check succeeds compute reaches the introspection
\* step and ends with Ok(Value) or Err(Error), never with a panic.
C4_ResultOrError ==
  out # "none" /\ events[1].ok =>
    TodoReached /\ out \in {"Ok", "Err(QueryPermissions)", "Err"}

(* -------------------------------- C5 ----------------------------------- *)
\* C5: info fails whenever no separator follows INFO, follows FOR, or stands
\* between a SCOPE/SC/TABLE/TB keyword and the identifier.
C5_SeparatorsMandatory ==
  Parsed /\ (\/ shape.sep1 = <<>>
             \/ shape.sep2 = <<>>
             \/ NeedsIdent(shape.tgt) /\ shape.sep3 = <<>>)
    => Failed

\* INFO FOR SCOPEt, in some spelling, was rejected
C5_Witness ==
  /\ Parsed
  /\ SepsPresent
  /\ shape.tgt = KwScope
  /\ shape.sep3 = <<>>
  /\ shape.id = [q |-> "plain", body |-> <<"t">>]
  /\ Failed

(* -------------------------------- C6 ----------------------------------- *)
\* C6: whatever the case mix of the keywords and whether the full keyword or
\* its alias is written, info gives the statement and the remainder it gives
\* for the upper-case full-keyword spelling of the same input.
C6_SpellingIrrelevant ==
  Parsed =>
    LET ref == info(TextOf(UpperFull(shape))) IN
    /\ res.ok = ref.ok
    /\ res.val = ref.val
    /\ res.ok => res.rest = ref.rest

\* a lower-case alias, with the identifier's upper case kept
C6_Witness ==
  /\ Parsed
  /\ shape.mask = 1..MaxMask
  /\ shape.tgt = KwSc
  /\ shape.id = [q |-> "plain", body |-> <<"T">>]
  /\ res.ok
  /\ res.val = Scope(<<"T">>)
  /\ res.rest = shape.suffix

(* -------------------------------- C7 ----------------------------------- *)
\* C7: Display emits INFO FOR, the upper-case full keyword of the variant
\* and, for Scope and Table, a space and the name verbatim; so the text of a
\* statement parsed from an alias or lower-case input is the canonical text.
CanonText(variant, name) ==
  KwInfo \o <<" ">> \o KwFor \o <<" ">> \o
    (CASE variant = "Namespace" -> KwNamespace
       [] variant = "Database" -> KwDatabase
       [] variant = "Scope" -> KwScope \o <<" ">> \o name
       [] variant = "Table" -> KwTable \o <<" ">> \o name)

C7_CanonicalRendering ==
  text # <<>> =>
    /\ text[1] = CanonText(stmt.variant, stmt.name)
    /\ shape.mode = "text" =>
         text[1] = KwInfo \o <<" ">> \o KwFor \o <<" ">> \o FullKeyword(shape.tgt)
                     \o (IF NeedsIdent(shape.tgt)
                         THEN <<" ">> \o shape.id.body ELSE <<>>)

\* info for db, rendered back as INFO FOR DATABASE
C7_Witness ==
  /\ shape.mode = "text"
  /\ shape.mask = 1..MaxMask
  /\ shape.tgt = KwDb
  /\ stmt = Database
  /\ text = <<KwInfo \o <<" ">> \o KwFor \o <<" ">> \o KwDatabase>>

(* -------------------------------- C8 ----------------------------------- *)
\* C8: info fails when what follows INFO FOR is none of the four
\* alternatives and when a SCOPE/SC/TABLE/TB keyword is not followed by an
\* identifier; every Scope or Table statement info returns has a non-empty
\* name.
C8_NoMatchNoStatement ==
  /\ Parsed /\ SepsPresent
       /\ (\/ shape.tgt \notin Keywords
           \/ NeedsIdent(shape.tgt) /\ shape.id.body = <<>>)
     => Failed
  /\ \A r \in {res, back} :
       r.ok /\ r.val.variant \in {"Scope", "Table"} => r.val.name # <<>>

\* INFO FOR SCOPE followed by a separator and the end of the input
C8_Witness ==
  /\ Parsed
  /\ SepsPresent
  /\ shape.tgt = KwScope
  /\ shape.sep3 # <<>>
  /\ shape.id.body = <<>>
  /\ shape.id.q = "plain"
  /\ shape.suffix = <<>>
  /\ Failed

(* -------------------------------- C9 ----------------------------------- *)
\* C9: a missing mandatory separator is a hard failure: info reports a
\* non-recoverable failure, and after a SCOPE/SC keyword with no separator
\* behind it no later alternative of the ordered choice is tried.
MissingSeparator ==
  \/ shape.sep1 = <<>>
  \/ shape.sep1 # <<>> /\ shape.sep2 = <<>>
  \/ SepsPresent /\ NeedsIdent(shape.tgt) /\ shape.sep3 = <<>>

C10_PrefixOnly ==
  Parsed =>
    /\ res.ok =>
         /\ Len(res.rest) <= Len(input[1])
         /\ Take(input[1], Len(input[1]) - Len(res.rest)) \o res.rest = input[1]
    /\ SepsPresent /\ shape.tgt \in NsKeywords \cup DbKeywords =>
         /\ res.ok
         /\ res.val = StatementFor(shape.tgt, <<>>)
         /\ stmt = res.val
         /\ res.rest = AfterTarget(shape)
    /\ SepsPresent /\ NeedsIdent(shape.tgt) /\ res.ok =>
         /\ res.val = StatementFor(shape.tgt, shape.id.body)
         /\ res.rest = shape.suffix
    /\ ~res.ok => Failed

\* INFO FOR NSt; leaves t; behind
C10_Witness ==
  /\ Parsed
  /\ shape.tgt = KwNs
  /\ shape.sep3 = <<>>
  /\ shape.id = [q |-> "plain", body |-> <<"t">>]
  /\ shape.suffix = <<";">>
  /\ res.ok
  /\ res.val = Namespace
  /\ res.rest = <<"t", ";">>

====
